---- MODULE Spec2Model ----
(***************************************************************************)
(* Model of pkg/api/bzz.go: the /bzz upload handler (bzzUploadHandler,     *)
(* fileUploadHandler) and the /bzz download handler (bzzDownloadHandler,   *)
(* serveReference, serveManifestEntry, downloadHandler, manifestFeed).     *)
(*                                                                         *)
(* Strings are sequences of one-character strings, so that the string      *)
(* functions the handlers call (strings.HasPrefix, strings.HasSuffix,      *)
(* strings.TrimRight, path.Join, hex encoding and decoding) are computed   *)
(* and not assumed.  A Reference is a sequence of bytes.                   *)
(***************************************************************************)
EXTENDS Integers, Sequences, FiniteSets, TLC

VARIABLES
    store,      \* manifests reachable through the storer: Reference -> manifest
    tags,       \* the tag service: tag uid -> [total, split, address]
    pc,         \* position of the request being handled
    dl,         \* locals of bzzDownloadHandler / serveReference
    ul,         \* locals of bzzUploadHandler / fileUploadHandler
    w,          \* the http.ResponseWriter of the request
    trace,      \* collaborator calls made by the request, in order
    uploadsLeft, \* uploads the gateway still accepts in this behaviour
    returned,   \* the manifest references that 201 responses gave to clients
    uploaders   \* the uploads that run concurrently on one tag, each with its position

vars == <<store, tags, pc, dl, ul, w, trace, uploadsLeft, returned, uploaders>>

-----------------------------------------------------------------------------
(* Bounds of the model *)

\* most entries, besides the root entry, of a manifest in the initial store
MaxEntries == 2
\* most chunks one tag.IncN call adds (split, size estimate, manifest node)
MaxChunks == 1
\* most trie nodes the manifest store persists in one m.Store call
MaxNodes == 2
\* uploads handled in one behaviour
MaxUploads == 1
\* uploads that run concurrently on one tag
MaxConcurrent == 2

-----------------------------------------------------------------------------
(* Strings *)

Slash == "/"
Dot == "."
EmptyString == << >>

\* strings.HasPrefix
HasPrefix(s, prefix) ==
    /\ Len(prefix) <= Len(s)
    /\ SubSeq(s, 1, Len(prefix)) = prefix

\* strings.HasSuffix
HasSuffix(s, suffix) ==
    /\ Len(suffix) <= Len(s)
    /\ SubSeq(s, Len(s) - Len(suffix) + 1, Len(s)) = suffix

\* strings.TrimRight(s, "/")
RECURSIVE TrimRightSlash(_)
TrimRightSlash(s) ==
    IF s # << >> /\ s[Len(s)] = Slash
    THEN TrimRightSlash(SubSeq(s, 1, Len(s) - 1))
    ELSE s

\* the elements of s between slashes (strings.Split(s, "/"))
RECURSIVE SplitSlash(_, _, _)
SplitSlash(s, cur, acc) ==
    IF s = << >> THEN Append(acc, cur)
    ELSE IF Head(s) = Slash THEN SplitSlash(Tail(s), << >>, Append(acc, cur))
    ELSE SplitSlash(Tail(s), Append(cur, Head(s)), acc)

\* the elements joined with slashes
RECURSIVE JoinSlash(_)
JoinSlash(elems) ==
    IF elems = << >> THEN << >>
    ELSE IF Len(elems) = 1 THEN elems[1]
    ELSE elems[1] \o <<Slash>> \o JoinSlash(Tail(elems))

\* path.Clean's pass over the elements: empty and "." elements are dropped,
\* ".." removes the element before it, is dropped at the root of a rooted
\* path and is kept at the front of a relative one
RECURSIVE CleanElems(_, _, _)
CleanElems(elems, out, rooted) ==
    IF elems = << >> THEN out
    ELSE LET e == Head(elems) IN
         IF e = << >> \/ e = <<Dot>>
         THEN CleanElems(Tail(elems), out, rooted)
         ELSE IF e = <<Dot, Dot>>
         THEN IF out # << >> /\ out[Len(out)] # <<Dot, Dot>>
              THEN CleanElems(Tail(elems), SubSeq(out, 1, Len(out) - 1), rooted)
              ELSE IF rooted
              THEN CleanElems(Tail(elems), out, rooted)
              ELSE CleanElems(Tail(elems), Append(out, e), rooted)
         ELSE CleanElems(Tail(elems), Append(out, e), rooted)

\* path.Clean
Clean(p) ==
    IF p = << >> THEN <<Dot>>
    ELSE LET rooted == p[1] = Slash
             out == CleanElems(SplitSlash(p, << >>, << >>), << >>, rooted)
         IN  IF rooted THEN <<Slash>> \o JoinSlash(out)
             ELSE IF out = << >> THEN <<Dot>>
             ELSE JoinSlash(out)

PathJoinConcat(a, b) == a \o <<Slash>> \o b

\* path.Join(a, b): empty elements are ignored, the result is Cleaned, and
\* the join of empty elements alone is the empty string
PathJoin(a, b) ==
    IF Len(a) + Len(b) = 0 THEN << >>
    ELSE IF a = << >> THEN Clean(b)
    ELSE Clean(a \o <<Slash>> \o b)

HexDigits == <<"0", "1", "2", "3", "4", "5", "6", "7",
               "8", "9", "a", "b", "c", "d", "e", "f">>

\* hex.EncodeToString, and swarm.Address.String
RECURSIVE HexEncode(_)
HexEncode(bytes) ==
    IF bytes = << >> THEN << >>
    ELSE <<HexDigits[(Head(bytes) \div 16) + 1], HexDigits[(Head(bytes) % 16) + 1]>>
         \o HexEncode(Tail(bytes))

IsHexDigit(c) == \E i \in 1..16 : HexDigits[i] = c
HexValue(c) == (CHOOSE i \in 1..16 : HexDigits[i] = c) - 1

RECURSIVE HexBytes(_)
HexBytes(s) ==
    IF s = << >> THEN << >>
    ELSE <<HexValue(s[1]) * 16 + HexValue(s[2])>> \o HexBytes(SubSeq(s, 3, Len(s)))

\* hex.DecodeString: an error for an odd length or a character that is no
\* hex digit
HexDecode(s) ==
    IF Len(s) % 2 = 0 /\ \A i \in 1..Len(s) : IsHexDigit(s[i])
    THEN [ok |-> TRUE, bytes |-> HexBytes(s)]
    ELSE [ok |-> FALSE, bytes |-> << >>]

\* filepath.Base: the last element of the path, after trailing slashes are
\* removed; "." for the empty path and "/" for a path of slashes only
Base(p) ==
    IF p = << >> THEN <<Dot>>
    ELSE LET t == TrimRightSlash(p)
             elems == SplitSlash(t, << >>, << >>)
         IN  IF t = << >> THEN <<Slash>> ELSE elems[Len(elems)]

\* fmt.Sprintf("%q", reference): the quoted hex form of the reference
Quoted(ref) == <<"\"">> \o HexEncode(ref) \o <<"\"">>

-----------------------------------------------------------------------------
(* Manifests *)

RootPath == <<Slash>>

WebsiteIndexDocumentSuffixKey == "website-index-document"
WebsiteErrorDocumentPathKey == "website-error-document"
EntryMetadataContentTypeKey == "Content-Type"
EntryMetadataFilenameKey == "Filename"
feedMetadataEntryOwner == "swarm-feed-owner"
feedMetadataEntryTopic == "swarm-feed-topic"
feedMetadataEntryType == "swarm-feed-type"

SwarmFeedIndexHeader == "Swarm-Feed-Index"
SwarmTagHeader == "Swarm-Tag"

\* a metadata map without keys
EmptyMeta == [k \in {} |-> << >>]

\* Go's map read: the value of the key, or "" when the key is absent
MetaGet(meta, key) == IF key \in DOMAIN meta THEN meta[key] ELSE << >>

\* manifest.NewEntry
NewEntry(reference, metadata) == [ref |-> reference, meta |-> metadata]

ZeroAddress == << >>
NoEntry == NewEntry(ZeroAddress, EmptyMeta)

\* a manifest without entries, as manifest.NewDefaultManifest returns it
EmptyManifest == [p \in {} |-> NoEntry]

\* manifest.Interface.Add: the entry is stored at the path, replacing the
\* entry that was there
ManifestAdd(m, path, entry) == (path :> entry) @@ m

\* manifest.Interface.Lookup: the entry stored at exactly this path, or
\* ErrNotFound
ManifestLookup(m, path) ==
    IF path \in DOMAIN m
    THEN [err |-> "nil", entry |-> m[path]]
    ELSE [err |-> "ErrNotFound", entry |-> NoEntry]

\* manifest.Interface.HasPrefix: whether some stored path starts with prefix
ManifestHasPrefix(m, prefix) == \E p \in DOMAIN m : HasPrefix(p, prefix)

\* manifestMetadataLoad: the value of the key in the metadata of the entry at
\* path; not ok when the lookup fails or the key is absent
manifestMetadataLoad(m, path, metadataKey) ==
    LET r == ManifestLookup(m, path) IN
    IF r.err # "nil" THEN [val |-> << >>, ok |-> FALSE]
    ELSE IF metadataKey \in DOMAIN r.entry.meta
    THEN [val |-> r.entry.meta[metadataKey], ok |-> TRUE]
    ELSE [val |-> << >>, ok |-> FALSE]

\* feeds.Type.FromString accepts the names of the two feed types
FeedTypeNames == { <<"S", "e", "q", "u", "e", "n", "c", "e">>, <<"E", "p", "o", "c", "h">> }

\* manifestFeed up to the call of the lookup factory: the error it returns
\* for the manifest, "nil" when the root entry names a feed (owner and topic
\* decode and are not empty, the type parses)
manifestFeedError(m) ==
    LET r == ManifestLookup(m, RootPath)
        meta == r.entry.meta
        o == MetaGet(meta, feedMetadataEntryOwner)
        t == MetaGet(meta, feedMetadataEntryTopic)
        ty == MetaGet(meta, feedMetadataEntryType)
        owner == IF o # << >> THEN HexDecode(o) ELSE [ok |-> TRUE, bytes |-> << >>]
        topic == IF t # << >> THEN HexDecode(t) ELSE [ok |-> TRUE, bytes |-> << >>]
    IN  IF r.err # "nil" THEN "node lookup"
        ELSE IF ~owner.ok THEN "decode owner"
        ELSE IF ~topic.ok THEN "decode topic"
        ELSE IF ty # << >> /\ ty \notin FeedTypeNames THEN "decode type"
        ELSE IF Len(owner.bytes) = 0 \/ Len(topic.bytes) = 0 THEN "feed metadata absent"
        ELSE "nil"

\* whether the root entry of the manifest names a feed
manifestFeed(m) == manifestFeedError(m) = "nil"

-----------------------------------------------------------------------------
(* References and the initial store *)

\* the address of a feed manifest, of a website manifest, and an address at
\* which nothing is stored
FeedAddr == <<240>>
SiteAddr == <<161>>
MissAddr == <<0>>

\* the address the manifest store returns for the i-th manifest it persists
UploadAddr(i) == <<175 + i>>

Addrs == {FeedAddr, SiteAddr, MissAddr} \cup {UploadAddr(i) : i \in 1..MaxUploads}

\* the paths an entry of the website manifest may have, and the content each
\* one targets
EntryPaths == { <<"a">>, <<"a", Slash, "b">>, <<"b">>, <<"e">> }
TargetOf(path) ==
    IF path = <<"a">> THEN <<1>>
    ELSE IF path = <<"a", Slash, "b">> THEN <<2>>
    ELSE IF path = <<"b">> THEN <<3>>
    ELSE <<4>>

\* the paths a download asks for
ReqPaths == { << >>, <<"a">>, <<"a", Slash>>, <<"a", Slash, Slash>>, <<Slash, "a">>,
              <<"b">>, <<"a", Slash, "b">> }

\* root metadata: the index document suffix, the error document path and the
\* feed identity are each absent or one of a few values
IndexMetas == { EmptyMeta,
                WebsiteIndexDocumentSuffixKey :> <<"b">>,
                WebsiteIndexDocumentSuffixKey :> << >> }
ErrorMetas == { EmptyMeta,
                WebsiteErrorDocumentPathKey :> <<"e">>,
                WebsiteErrorDocumentPathKey :> <<"b">> }
FeedMeta == (feedMetadataEntryOwner :> <<"0", "a">>) @@ (feedMetadataEntryTopic :> <<"0", "b">>)
\* metadata that names no feed: a type that is no feed type, an owner that is
\* no hex string, a topic that is none, no topic
NoFeedMetas == { FeedMeta @@ (feedMetadataEntryType :> <<"x">>),
                 (feedMetadataEntryOwner :> <<"0">>) @@ (feedMetadataEntryTopic :> <<"0", "b">>),
                 (feedMetadataEntryOwner :> <<"0", "a">>) @@ (feedMetadataEntryTopic :> <<"0", "g">>),
                 feedMetadataEntryOwner :> <<"0", "a">> }

RootMetas ==
    { i @@ e @@ f : i \in IndexMetas, e \in ErrorMetas, f \in {EmptyMeta, FeedMeta} }
    \cup NoFeedMetas

\* the website manifests: up to MaxEntries entries, with or without a root entry
SiteEntries ==
    { [p \in ps |-> NewEntry(TargetOf(p), EntryMetadataFilenameKey :> p)] :
        ps \in { qs \in SUBSET EntryPaths : Cardinality(qs) <= MaxEntries } }
SiteManifests ==
    SiteEntries \cup { ManifestAdd(m, RootPath, NewEntry(ZeroAddress, meta)) :
                         m \in SiteEntries, meta \in RootMetas }

\* a feed manifest: a root entry that names owner and topic
FeedManifest ==
    ManifestAdd(EmptyManifest, RootPath, NewEntry(ZeroAddress, FeedMeta))

Stored(m) == [exists |-> TRUE, entries |-> m]
NotStored == [exists |-> FALSE, entries |-> EmptyManifest]

\* the addresses a request or a feed update may name: one where nothing is
\* stored, and every address that holds a manifest
KnownAddrs == {MissAddr} \cup { a \in Addrs : store[a].exists }

\* the file names of the uploads that succeeded, which a client may ask for
UploadedNames ==
    { store[a].entries[RootPath].meta[WebsiteIndexDocumentSuffixKey] : a \in returned }

-----------------------------------------------------------------------------
(* The response writer *)

NewResponseWriter == [status |-> 0, msg |-> "", hdr |-> EmptyMeta, body |-> << >>, writes |-> 0]

HeaderSetOnly(rw, name, value) == [rw EXCEPT !.hdr = (name :> value)]

\* w.Header().Set
HeaderSet(rw, name, value) == [rw EXCEPT !.hdr = (name :> value) @@ @]

\* a jsonhttp response, http.Redirect or http.ServeContent: the status line and
\* the body are written
Respond(rw, status, msg) == [rw EXCEPT !.status = status, !.msg = msg, !.writes = @ + 1]

StatusOK == 200
StatusCreated == 201
StatusPermanentRedirect == 308
StatusBadRequest == 400
StatusPaymentRequired == 402
StatusNotFound == 404
StatusUnprocessableEntity == 422
StatusInternalServerError == 500

-----------------------------------------------------------------------------
(* Download: bzzDownloadHandler and serveReference *)

NoUpload ==
    [name |-> << >>, given |-> << >>, uid |-> 0, created |-> FALSE, before |-> 0, est |-> 0,
     split |-> 0, fr |-> ZeroAddress, m |-> EmptyManifest, ref |-> ZeroAddress,
     stored |-> 0]

NoDownload ==
    [url |-> << >>, address |-> ZeroAddress, pathVar |-> << >>, feedDereferenced |-> FALSE,
     m |-> EmptyManifest, me |-> NoEntry, err |-> "nil", tier |-> "none"]

\* a trailing run of slashes in the requested path is cut to one slash
NormalizePath(p) ==
    IF HasSuffix(p, <<Slash>>) THEN TrimRightSlash(p) \o <<Slash>> ELSE p

bzzDownloadHandler(address, path) ==
    /\ pc = "idle"
    /\ dl' = [NoDownload EXCEPT !.url = path, !.address = address,
                                !.pathVar = NormalizePath(path)]
    /\ w' = NewResponseWriter
    /\ trace' = << >>
    /\ pc' = "FETCH"
    /\ UNCHANGED <<store, tags, ul, uploadsLeft, returned, uploaders>>

FeedDetectionAlways(feedDereferenced) == TRUE

\* the guard of feed detection
FeedDetectionDue(feedDereferenced) == ~feedDereferenced

\* FETCH: the manifest at the address is loaded
Fetch ==
    /\ pc = "FETCH"
    /\ trace' = Append(trace, <<"NewDefaultManifestReference", dl.address>>)
    /\ IF ~store[dl.address].exists
       THEN /\ w' = Respond(w, StatusNotFound, "Not Found")
            /\ pc' = "done"
            /\ dl' = dl
       ELSE /\ dl' = [dl EXCEPT !.m = store[dl.address].entries]
            /\ pc' = IF FeedDetectionDue(dl.feedDereferenced) THEN "manifestFeed" ELSE "path"
            /\ w' = w
    /\ UNCHANGED <<store, tags, ul, uploadsLeft, returned, uploaders>>

FeedDetectedAlways(err) == TRUE

\* if l, err := s.manifestFeed(ctx, m); err == nil
FeedDetected(err) == err = "nil"

\* s.manifestFeed(ctx, m): the root entry is read; when it names a feed the
\* lookup factory is asked for a lookup, which may fail
ManifestFeed(factoryOk) ==
    /\ pc = "manifestFeed"
    /\ LET err == IF ~manifestFeed(dl.m) THEN manifestFeedError(dl.m)
                  ELSE IF factoryOk THEN "nil" ELSE "NewLookup"
       IN  /\ trace' = Append(trace, <<"manifestFeed", err>>)
           /\ pc' = IF FeedDetected(err) THEN "feedAt" ELSE "path"
    /\ UNCHANGED <<store, tags, dl, ul, w, uploadsLeft, returned, uploaders>>

\* what the feed lookup gives: an error of l.At (the request's context was
\* cancelled, or any other), no update, an update that does not decode, an
\* index that does not marshal, or an update
FeedOutcomes == {"context.Canceled", "error", "no update", "malformed", "marshal error",
                 "update"}

FeedErrorResponseSame(rw, outcome) ==
    IF outcome \in {"context.Canceled", "error", "no update"}
    THEN Respond(rw, StatusNotFound, "feed not found")
    ELSE IF outcome = "malformed"
    THEN Respond(rw, StatusInternalServerError, "mapStructure feed update")
    ELSE Respond(rw, StatusInternalServerError, "marshal index")

\* the response to each failure of the feed resolution
FeedErrorResponse(rw, outcome) ==
    IF outcome \in {"context.Canceled", "error"}
    THEN Respond(rw, StatusNotFound, "feed not found")
    ELSE IF outcome = "no update"
    THEN Respond(rw, StatusNotFound, "no update found")
    ELSE IF outcome = "malformed"
    THEN Respond(rw, StatusInternalServerError, "mapStructure feed update")
    ELSE Respond(rw, StatusInternalServerError, "marshal index")

\* l.At, parseFeedUpdate and cur.MarshalBinary: the feed is looked up and, when
\* it has an update that decodes, the address becomes the update's reference
FeedAt(outcome, ref, cur) ==
    /\ pc = "feedAt"
    /\ trace' = Append(trace, <<"At", outcome>>)
    /\ IF outcome \in {"context.Canceled", "error", "no update", "malformed"}
       THEN /\ w' = FeedErrorResponse(w, outcome)
            /\ pc' = "done"
            /\ dl' = dl
       ELSE IF outcome = "marshal error"
       THEN /\ dl' = [dl EXCEPT !.address = ref, !.feedDereferenced = TRUE]
            /\ w' = FeedErrorResponse(w, outcome)
            /\ pc' = "done"
       ELSE /\ dl' = [dl EXCEPT !.address = ref, !.feedDereferenced = TRUE]
            /\ w' = HeaderSet(HeaderSet(w, SwarmFeedIndexHeader, HexEncode(cur)),
                              "Access-Control-Expose-Headers", <<SwarmFeedIndexHeader>>)
            /\ pc' = "FETCH"
    /\ UNCHANGED <<store, tags, ul, uploadsLeft, returned, uploaders>>

\* pathVar == "": the index document named by the root entry is served
EmptyPath ==
    /\ pc = "path"
    /\ dl.pathVar = << >>
    /\ LET idx == manifestMetadataLoad(dl.m, RootPath, WebsiteIndexDocumentSuffixKey)
           pathWithIndex == PathJoin(dl.pathVar, idx.val)
           r == ManifestLookup(dl.m, pathWithIndex)
       IN  IF idx.ok
           THEN /\ trace' = trace \o << <<"Lookup", RootPath>>, <<"Lookup", pathWithIndex>> >>
                /\ IF r.err = "nil"
                   THEN /\ dl' = [dl EXCEPT !.me = r.entry, !.tier = "index"]
                        /\ pc' = "serve"
                        /\ w' = w
                   ELSE /\ w' = Respond(w, StatusNotFound, "address not found or incorrect")
                        /\ pc' = "done"
                        /\ dl' = dl
           ELSE /\ trace' = Append(trace, <<"Lookup", RootPath>>)
                /\ w' = Respond(w, StatusNotFound, "address not found or incorrect")
                /\ pc' = "done"
                /\ dl' = dl
    /\ UNCHANGED <<store, tags, ul, uploadsLeft, returned, uploaders>>

\* what loading the nodes of the manifest may fail with during a lookup: not
\* at all, the request's context was cancelled, or any other error
LoadErrors == {"nil", "context.Canceled", "error"}

IsNotFoundAny(err) == TRUE

\* errors.Is(err, manifest.ErrNotFound)
IsNotFound(err) == err = "ErrNotFound"

\* me, err := m.Lookup(ctx, pathVar)
LookupPath(loadErr) ==
    /\ pc = "path"
    /\ dl.pathVar # << >>
    /\ trace' = Append(trace, <<"Lookup", dl.pathVar>>)
    /\ LET r == IF loadErr = "nil" THEN ManifestLookup(dl.m, dl.pathVar)
                ELSE [err |-> loadErr, entry |-> NoEntry] IN
       IF r.err = "nil"
       THEN /\ dl' = [dl EXCEPT !.me = r.entry, !.tier = "direct"]
            /\ pc' = "serve"
            /\ w' = w
       ELSE IF IsNotFound(r.err)
       THEN /\ pc' = "redirect"
            /\ dl' = [dl EXCEPT !.err = r.err]
            /\ w' = w
       ELSE /\ w' = Respond(w, StatusNotFound, "Not Found")
            /\ pc' = "done"
            /\ dl' = [dl EXCEPT !.err = r.err]
    /\ UNCHANGED <<store, tags, ul, uploadsLeft, returned, uploaders>>

IsDirectoryNever(m, dirPath) == FALSE

\* exists, err := m.HasPrefix(ctx, dirPath); err == nil && exists
IsDirectory(m, dirPath) == ManifestHasPrefix(m, dirPath)

RedirectURLSame(url) == url

\* u.Path += "/"
RedirectURL(url) == url \o <<Slash>>

\* the path is not found: check for directory
TierRedirect ==
    /\ pc = "redirect"
    /\ IF ~HasPrefix(dl.pathVar, <<Slash>>)
       THEN LET dirPath == dl.pathVar \o <<Slash>> IN
            /\ trace' = Append(trace, <<"HasPrefix", dirPath>>)
            /\ IF IsDirectory(dl.m, dirPath)
               THEN /\ w' = Respond(HeaderSet(w, "Location", RedirectURL(dl.url)),
                                    StatusPermanentRedirect, "")
                    /\ dl' = [dl EXCEPT !.tier = "redirect"]
                    /\ pc' = "done"
               ELSE /\ pc' = "index"
                    /\ UNCHANGED <<dl, w>>
       ELSE /\ pc' = "index"
            /\ UNCHANGED <<dl, w, trace>>
    /\ UNCHANGED <<store, tags, ul, uploadsLeft, returned, uploaders>>

\* the path is not found and is no directory: check index suffix path
TierIndex ==
    /\ pc = "index"
    /\ LET idx == manifestMetadataLoad(dl.m, RootPath, WebsiteIndexDocumentSuffixKey)
           pathWithIndex == PathJoin(dl.pathVar, idx.val)
           r == ManifestLookup(dl.m, pathWithIndex)
       IN  IF idx.ok /\ ~HasSuffix(dl.pathVar, idx.val)
           THEN /\ trace' = trace \o << <<"Lookup", RootPath>>, <<"Lookup", pathWithIndex>> >>
                /\ IF r.err = "nil"
                   THEN /\ dl' = [dl EXCEPT !.me = r.entry, !.tier = "index"]
                        /\ pc' = "serve"
                   ELSE /\ pc' = "errdoc"
                        /\ dl' = dl
           ELSE /\ trace' = Append(trace, <<"Lookup", RootPath>>)
                /\ pc' = "errdoc"
                /\ dl' = dl
    /\ UNCHANGED <<store, tags, ul, w, uploadsLeft, returned, uploaders>>

\* no index document: check if error document is to be shown, and answer
\* "path address not found" when it is not
TierError ==
    /\ pc = "errdoc"
    /\ LET doc == manifestMetadataLoad(dl.m, RootPath, WebsiteErrorDocumentPathKey)
           r == ManifestLookup(dl.m, doc.val)
       IN  IF doc.ok /\ dl.pathVar # doc.val
           THEN /\ trace' = trace \o << <<"Lookup", RootPath>>, <<"Lookup", doc.val>> >>
                /\ IF r.err = "nil"
                   THEN /\ dl' = [dl EXCEPT !.me = r.entry, !.tier = "error"]
                        /\ pc' = "serve"
                        /\ w' = w
                   ELSE /\ w' = Respond(w, StatusNotFound, "path address not found")
                        /\ pc' = "done"
                        /\ dl' = dl
           ELSE /\ trace' = Append(trace, <<"Lookup", RootPath>>)
                /\ w' = Respond(w, StatusNotFound, "path address not found")
                /\ pc' = "done"
                /\ dl' = dl
    /\ UNCHANGED <<store, tags, ul, uploadsLeft, returned, uploaders>>

JoinerOutcomes == {"nil", "ErrNotFound", "error"}

\* the headers serveManifestEntry takes from the entry's metadata
AdditionalHeaders(mtdt) ==
    (IF EntryMetadataFilenameKey \in DOMAIN mtdt
     THEN "Content-Disposition" :> Base(mtdt[EntryMetadataFilenameKey])
     ELSE EmptyMeta)
    @@
    (IF EntryMetadataContentTypeKey \in DOMAIN mtdt
     THEN "Content-Type" :> mtdt[EntryMetadataContentTypeKey]
     ELSE EmptyMeta)

EtagAlways(feedDereferenced) == TRUE
EtagNever(feedDereferenced) == FALSE

\* the etag argument of serveManifestEntry
EtagWanted(feedDereferenced) == ~feedDereferenced

\* serveManifestEntry and downloadHandler: the entry's content is opened and
\* served with the headers of the entry (the content's length and bytes are
\* not modelled)
ServeManifestEntry(joined) ==
    /\ pc = "serve"
    /\ trace' = Append(trace, <<"joiner.New", dl.me.ref, joined>>)
    /\ IF joined = "ErrNotFound"
       THEN w' = Respond(w, StatusNotFound, "Not Found")
       ELSE IF joined # "nil"
       THEN w' = Respond(w, StatusInternalServerError, "joiner failed")
       ELSE LET h1 == [w EXCEPT !.hdr = AdditionalHeaders(dl.me.meta) @@ @]
                h2 == IF EtagWanted(dl.feedDereferenced)
                      THEN HeaderSet(h1, "ETag", Quoted(dl.me.ref))
                      ELSE h1
                h3 == HeaderSet(h2, "Access-Control-Expose-Headers", <<"Content-Disposition">>)
            IN  w' = [Respond(h3, StatusOK, "") EXCEPT !.body = dl.me.ref]
    /\ pc' = "done"
    /\ UNCHANGED <<store, tags, dl, ul, uploadsLeft, returned, uploaders>>

\* the handler has returned: its locals and the response writer are gone
Return ==
    /\ pc = "done"
    /\ pc' = "idle"
    /\ dl' = NoDownload
    /\ ul' = NoUpload
    /\ w' = NewResponseWriter
    /\ trace' = << >>
    /\ UNCHANGED <<store, tags, uploadsLeft, returned, uploaders>>

\* the steps of a download other than the feed lookup
DownloadSteps ==
    \/ \E address \in KnownAddrs, path \in ReqPaths \cup UploadedNames :
         bzzDownloadHandler(address, path)
    \/ Fetch
    \/ \E factoryOk \in BOOLEAN : ManifestFeed(factoryOk)
    \/ EmptyPath
    \/ \E loadErr \in LoadErrors : LookupPath(loadErr)
    \/ TierRedirect
    \/ TierIndex
    \/ TierError
    \/ \E joined \in JoinerOutcomes : ServeManifestEntry(joined)

Download ==
    \/ DownloadSteps
    \/ \E outcome \in FeedOutcomes, ref \in KnownAddrs : FeedAt(outcome, ref, <<7>>)

-----------------------------------------------------------------------------
(* Upload: bzzUploadHandler and fileUploadHandler.  The fields of the      *)
(* request (name, tag header, size, body, pin flag) are drawn where the    *)
(* handler reads them; each is read once.                                  *)

\* the file names a client may give: none, a plain name, a name that ends
\* with a slash, a name that starts with one
Names == { << >>, <<"a">>, <<"a", Slash>>, <<Slash, "a">> }

\* the bodies a client may send, and the reference the content pipeline
\* returns for each
Bodies == {1}
BodyRef(body) == <<9 + body>>

\* validate:"startsnotwith=/"
StartsNotWithSlash(name) == ~HasPrefix(name, <<Slash>>)

NewTag == [total |-> 0, done |-> 0, address |-> ZeroAddress]

IncNStore(tgs, uid, n) == [tgs EXCEPT ![uid].total = n]

\* tag.IncN(tags.TotalChunks, n): one atomic addition to the total
IncN(tgs, uid, n) == [tgs EXCEPT ![uid].total = @ + n]

\* tag.DoneSplit(address)
TagDoneSplit(tgs, uid, address) == [tgs EXCEPT ![uid].done = @ + 1, ![uid].address = address]

\* the tag header of a request: none (0), or a tag uid, known or not
TagHeaders == 0..(Len(tags) + 1)

PutterErrors == {"nil", "errBatchUnusable", "postage.ErrNotUsable", "postage.ErrNotFound",
                 "errInvalidPostageBatch", "errUnsupportedDevNodeOperation", "error"}

PutterErrorResponseBadRequest(rw, putterErr) ==
    Respond(rw, StatusBadRequest, "Bad Request")

\* the response to each error of newStamperPutter
PutterErrorResponse(rw, putterErr) ==
    IF putterErr \in {"errBatchUnusable", "postage.ErrNotUsable"}
    THEN Respond(rw, StatusUnprocessableEntity, "batch not usable yet or does not exist")
    ELSE IF putterErr = "postage.ErrNotFound"
    THEN Respond(rw, StatusNotFound, "batch with id not found")
    ELSE IF putterErr = "errInvalidPostageBatch"
    THEN Respond(rw, StatusBadRequest, "invalid batch id")
    ELSE IF putterErr = "errUnsupportedDevNodeOperation"
    THEN Respond(rw, StatusBadRequest, "errUnsupportedDevNodeOperation")
    ELSE Respond(rw, StatusBadRequest, "Bad Request")

\* bzzUploadHandler: the Content-Type header is validated and the postage
\* batch of the request gives the putter and wait()
bzzUploadHandler(contentTypeOk, putterErr) ==
    /\ pc = "idle"
    /\ uploadsLeft > 0
    /\ uploadsLeft' = uploadsLeft - 1
    /\ dl' = NoDownload
    /\ ul' = NoUpload
    /\ IF ~contentTypeOk
       THEN /\ w' = Respond(NewResponseWriter, StatusBadRequest, "invalid header params")
            /\ trace' = << >>
            /\ pc' = "done"
       ELSE /\ trace' = << <<"newStamperPutter", putterErr>> >>
            /\ IF putterErr = "nil"
               THEN /\ w' = NewResponseWriter
                    /\ pc' = "queries"
               ELSE /\ pc' = "done"
                    /\ w' = PutterErrorResponse(NewResponseWriter, putterErr)
    /\ UNCHANGED <<store, tags, returned, uploaders>>

\* fileUploadHandler: the name query parameter is read and validated
ParseQueries(name) ==
    /\ pc = "queries"
    /\ IF StartsNotWithSlash(name)
       THEN /\ ul' = [ul EXCEPT !.name = name, !.given = name]
            /\ pc' = "tag"
            /\ w' = w
       ELSE /\ w' = Respond(w, StatusBadRequest, "invalid query params")
            /\ pc' = "done"
            /\ ul' = [ul EXCEPT !.given = name]
    /\ UNCHANGED <<store, tags, dl, trace, uploadsLeft, returned, uploaders>>

TagErrors == {"nil", "error"}

TagErrorResponseInternal(rw, err) ==
    Respond(rw, StatusInternalServerError, "cannot get or create tag")

\* the response to each error of getOrCreateTag
TagErrorResponse(rw, err) ==
    IF err = "tags.ErrNotFound"
    THEN Respond(rw, StatusNotFound, "tag not found")
    ELSE Respond(rw, StatusInternalServerError, "cannot get or create tag")

\* s.getOrCreateTag: without a tag header a tag is created; with one the tag
\* of that uid is fetched, and is not found when there is none
GetOrCreateTag(header, err) ==
    /\ pc = "tag"
    /\ IF err # "nil"
       THEN /\ trace' = Append(trace, <<"getOrCreateTag", err>>)
            /\ w' = TagErrorResponse(w, err)
            /\ pc' = "done"
            /\ UNCHANGED <<ul, tags>>
       ELSE IF header = 0
       THEN /\ trace' = Append(trace, <<"getOrCreateTag", "nil">>)
            /\ tags' = Append(tags, NewTag)
            /\ ul' = [ul EXCEPT !.uid = Len(tags) + 1, !.created = TRUE, !.before = 0]
            /\ pc' = "pipeline"
            /\ w' = w
       ELSE IF header \notin DOMAIN tags
       THEN /\ trace' = Append(trace, <<"getOrCreateTag", "tags.ErrNotFound">>)
            /\ w' = TagErrorResponse(w, "tags.ErrNotFound")
            /\ pc' = "done"
            /\ UNCHANGED <<ul, tags>>
       ELSE /\ trace' = Append(trace, <<"getOrCreateTag", "nil">>)
            /\ ul' = [ul EXCEPT !.uid = header, !.created = FALSE,
                                !.before = tags[header].total]
            /\ pc' = "estimate"
            /\ w' = w
            /\ tags' = tags
    /\ UNCHANGED <<store, dl, uploadsLeft, returned, uploaders>>

\* the tag was sent via header: its total grows by the estimated number of
\* chunks of the request
IncEstimate(estimatedTotalChunks, incOk) ==
    /\ pc = "estimate"
    /\ ul' = [ul EXCEPT !.est = estimatedTotalChunks]
    /\ IF estimatedTotalChunks > 0
       THEN /\ trace' = Append(trace, <<"IncN", estimatedTotalChunks,
                                       IF incOk THEN "nil" ELSE "error">>)
            /\ IF incOk
               THEN /\ tags' = IncN(tags, ul.uid, estimatedTotalChunks)
                    /\ pc' = "pipeline"
                    /\ w' = w
               ELSE /\ w' = Respond(w, StatusInternalServerError, "increment tag failed")
                    /\ pc' = "done"
                    /\ tags' = tags
       ELSE /\ pc' = "pipeline"
            /\ UNCHANGED <<tags, w, trace>>
    /\ UNCHANGED <<store, dl, uploadsLeft, returned, uploaders>>

\* the content pipeline with the tag in its context: the chunks it splits
\* off are counted on the tag, before it returns the reference or fails
PipelineSplit(tgs, uid, chunks) == IncN(tgs, uid, chunks)

FileNameOfName(name, fr) == name

\* if filename is still empty, use the file hash as the filename
FileName(name, fr) == IF name = << >> THEN HexEncode(fr) ELSE name

PipelineErrors == {"nil", "postage.ErrBucketFull", "error"}

PipelineErrorResponseInternal(rw, err) ==
    Respond(rw, StatusInternalServerError, "errFileStore")

\* the response to each error of the content pipeline
PipelineErrorResponse(rw, err) ==
    IF err = "postage.ErrBucketFull"
    THEN Respond(rw, StatusPaymentRequired, "batch is overissued")
    ELSE Respond(rw, StatusInternalServerError, "errFileStore")

\* fr, err := p(ctx, r.Body), and the default of the file name
StoreFile(body, chunks, err) ==
    /\ pc = "pipeline"
    /\ trace' = Append(trace, <<"pipeline", body, err>>)
    /\ tags' = PipelineSplit(tags, ul.uid, chunks)
    /\ IF err # "nil"
       THEN /\ w' = PipelineErrorResponse(w, err)
            /\ pc' = "done"
            /\ ul' = [ul EXCEPT !.split = chunks]
       ELSE LET fr == BodyRef(body)
                name == FileName(ul.name, fr)
            IN  /\ ul' = [ul EXCEPT !.split = chunks, !.fr = fr, !.name = name]
                /\ IF ul.name = << >> /\ ~StartsNotWithSlash(name)
                   THEN /\ w' = Respond(w, StatusBadRequest, "invalid body params")
                        /\ pc' = "done"
                   ELSE /\ w' = w
                        /\ pc' = "manifest"
    /\ UNCHANGED <<store, dl, uploadsLeft, returned, uploaders>>

ManifestErrors == {"nil", "manifest.ErrInvalidManifestType", "error"}

\* manifest.NewDefaultManifest(l, encrypt)
NewManifest(err) ==
    /\ pc = "manifest"
    /\ trace' = Append(trace, <<"NewDefaultManifest", err>>)
    /\ IF err = "manifest.ErrInvalidManifestType"
       THEN /\ w' = Respond(w, StatusBadRequest, "create manifest failed")
            /\ pc' = "done"
            /\ ul' = ul
       ELSE IF err # "nil"
       THEN /\ w' = Respond(w, StatusInternalServerError, "Internal Server Error")
            /\ pc' = "done"
            /\ ul' = ul
       ELSE /\ ul' = [ul EXCEPT !.m = EmptyManifest]
            /\ pc' = "addRoot"
            /\ w' = w
    /\ UNCHANGED <<store, tags, dl, uploadsLeft, returned, uploaders>>

\* m.Add(ctx, manifest.RootPath, ...): the root entry names the file as the
\* index document
AddRoot(ok) ==
    /\ pc = "addRoot"
    /\ trace' = Append(trace, <<"Add", RootPath, IF ok THEN "nil" ELSE "error">>)
    /\ IF ok
       THEN /\ ul' = [ul EXCEPT !.m = ManifestAdd(@, RootPath,
                          NewEntry(ZeroAddress, WebsiteIndexDocumentSuffixKey :> ul.name))]
            /\ pc' = "addFile"
            /\ w' = w
       ELSE /\ w' = Respond(w, StatusInternalServerError, "add metadata failed")
            /\ pc' = "done"
            /\ ul' = ul
    /\ UNCHANGED <<store, tags, dl, uploadsLeft, returned, uploaders>>

ContentTypeOfRequest == <<"t">>

\* m.Add(ctx, queries.FileName, manifest.NewEntry(fr, fileMtdt))
AddFile(ok) ==
    /\ pc = "addFile"
    /\ trace' = Append(trace, <<"Add", ul.name, IF ok THEN "nil" ELSE "error">>)
    /\ IF ok
       THEN /\ ul' = [ul EXCEPT !.m = ManifestAdd(@, ul.name,
                          NewEntry(ul.fr, (EntryMetadataContentTypeKey :> ContentTypeOfRequest)
                                          @@ (EntryMetadataFilenameKey :> ul.name)))]
            /\ pc' = "store"
            /\ w' = w
       ELSE /\ w' = Respond(w, StatusInternalServerError, "add file failed")
            /\ pc' = "done"
            /\ ul' = ul
    /\ UNCHANGED <<store, tags, dl, uploadsLeft, returned, uploaders>>

RECURSIVE SumSeq(_)
SumSeq(q) == IF q = << >> THEN 0 ELSE Head(q) + SumSeq(Tail(q))

\* the chunk counts calculateNumberOfChunks may give for the nodes the
\* manifest store persists in one m.Store call
NodeChunks == UNION { [1..k -> 0..MaxChunks] : k \in 1..MaxNodes }

StoreSizeFnUndo(created, estimatedTotalChunks) ==
    IF ~created /\ estimatedTotalChunks > 0 THEN 0 - estimatedTotalChunks ELSE 0

StoreSizeFnAlways(created, estimatedTotalChunks) ==
    IF estimatedTotalChunks > 0 THEN estimatedTotalChunks ELSE 0

\* storeSizeFn: what the tag's total grows by when the manifest store reports
\* a persisted node of this many chunks.  The callback is registered only in
\* the case when the tag was sent via header
StoreSizeFn(created, estimatedTotalChunks) ==
    IF ~created /\ estimatedTotalChunks > 0 THEN estimatedTotalChunks ELSE 0

\* the reference of a persisted manifest: the address that already holds this
\* manifest, or the next address of the manifest store
ManifestReference(m) ==
    IF \E a \in Addrs : store[a] = Stored(m)
    THEN CHOOSE a \in Addrs : store[a] = Stored(m)
    ELSE UploadAddr(1 + Cardinality({ a \in Addrs \ {FeedAddr, SiteAddr} : store[a].exists }))

NextStepDoneSplit(created) == "doneSplit"

\* if created: tag.DoneSplit is the next step, and the pin when it is not
NextStepAfterStore(created) == IF created THEN "doneSplit" ELSE "pin"

StoreErrors == {"nil", "postage.ErrBucketFull", "error", "increment tag"}

\* the response to each error of the manifest store
ManifestStoreErrorResponse(rw, err) ==
    IF err = "postage.ErrBucketFull"
    THEN Respond(rw, StatusPaymentRequired, "batch is overissued")
    ELSE Respond(rw, StatusInternalServerError, "manifest store failed")

\* m.Store(ctx, storeSizeFn...): the manifest store persists the nodes of the
\* manifest and calls storeSizeFn for each; an error of storeSizeFn (the last
\* node's, whose increment is then not made) fails the store
StoreManifest(nodes, err) ==
    /\ pc = "store"
    /\ err = "increment tag" => ~ul.created /\ nodes[Len(nodes)] > 0
    /\ LET made == IF err = "increment tag" THEN SubSeq(nodes, 1, Len(nodes) - 1) ELSE nodes
           incs == [i \in 1..Len(made) |-> StoreSizeFn(ul.created, made[i])]
           ref == ManifestReference(ul.m)
       IN  /\ tags' = IncN(tags, ul.uid, SumSeq(incs))
           /\ trace' = trace \o (IF SumSeq(incs) > 0 THEN << <<"IncN", SumSeq(incs), "nil">> >>
                                 ELSE << >>)
                             \o << <<"Store", err>> >>
           /\ IF err = "nil"
              THEN /\ store' = [store EXCEPT ![ref] = Stored(ul.m)]
                   /\ ul' = [ul EXCEPT !.ref = ref, !.stored = SumSeq(made)]
                   /\ pc' = NextStepAfterStore(ul.created)
                   /\ w' = w
              ELSE /\ w' = ManifestStoreErrorResponse(w, err)
                   /\ pc' = "done"
                   /\ ul' = [ul EXCEPT !.stored = SumSeq(made)]
                   /\ store' = store
    /\ UNCHANGED <<dl, uploadsLeft, returned, uploaders>>

\* the tag was created by the request: tag.DoneSplit(manifestReference)
MarkDoneSplit(ok) ==
    /\ pc = "doneSplit"
    /\ trace' = Append(trace, <<"DoneSplit", ul.ref, IF ok THEN "nil" ELSE "error">>)
    /\ IF ok
       THEN /\ tags' = TagDoneSplit(tags, ul.uid, ul.ref)
            /\ pc' = "pin"
            /\ w' = w
       ELSE /\ w' = Respond(w, StatusInternalServerError, "done split failed")
            /\ pc' = "done"
            /\ tags' = tags
    /\ UNCHANGED <<store, dl, ul, uploadsLeft, returned, uploaders>>

\* if requestPin(r): s.pinning.CreatePin(ctx, manifestReference, false)
CreatePin(pin, ok) ==
    /\ pc = "pin"
    /\ IF pin
       THEN /\ trace' = Append(trace, <<"CreatePin", ul.ref, IF ok THEN "nil" ELSE "error">>)
            /\ IF ok
               THEN /\ pc' = "wait"
                    /\ w' = w
               ELSE /\ w' = Respond(w, StatusInternalServerError, "create pin failed")
                    /\ pc' = "done"
       ELSE /\ pc' = "wait"
            /\ UNCHANGED <<w, trace>>
    /\ UNCHANGED <<store, tags, dl, ul, uploadsLeft, returned, uploaders>>

WaitIgnored(err) == "nil"

\* the error of waitFn() as the handler tests it
WaitError(err) == err

\* waitFn(), and the response: 201 Created with the manifest reference
Wait(err) ==
    /\ pc = "wait"
    /\ trace' = Append(trace, <<"wait", err>>)
    /\ IF WaitError(err) # "nil"
       THEN /\ w' = Respond(w, StatusInternalServerError, "sync chunks failed")
            /\ returned' = returned
       ELSE LET h1 == HeaderSet(w, "ETag", Quoted(ul.ref))
                h2 == HeaderSet(h1, SwarmTagHeader, <<ul.uid>>)
                h3 == HeaderSet(h2, "Access-Control-Expose-Headers", <<SwarmTagHeader>>)
            IN  /\ w' = [Respond(h3, StatusCreated, "") EXCEPT !.body = ul.ref]
                /\ returned' = returned \cup {ul.ref}
    /\ pc' = "done"
    /\ UNCHANGED <<store, tags, dl, ul, uploadsLeft, uploaders>>

Upload ==
    \/ \E contentTypeOk \in BOOLEAN, putterErr \in PutterErrors :
         bzzUploadHandler(contentTypeOk, putterErr)
    \/ \E name \in Names : ParseQueries(name)
    \/ \E header \in TagHeaders, err \in TagErrors : GetOrCreateTag(header, err)
    \/ \E n \in 0..MaxChunks, incOk \in BOOLEAN : IncEstimate(n, incOk)
    \/ \E body \in Bodies, chunks \in 0..MaxChunks, err \in PipelineErrors :
         StoreFile(body, chunks, err)
    \/ \E err \in ManifestErrors : NewManifest(err)
    \/ \E ok \in BOOLEAN : AddRoot(ok)
    \/ \E ok \in BOOLEAN : AddFile(ok)
    \/ \E nodes \in NodeChunks, err \in StoreErrors : StoreManifest(nodes, err)
    \/ \E ok \in BOOLEAN : MarkDoneSplit(ok)
    \/ \E pin \in BOOLEAN, ok \in BOOLEAN : CreatePin(pin, ok)
    \/ \E err \in {"nil", "error"} : Wait(err)

-----------------------------------------------------------------------------
(* Concurrent uploads that name the same tag in their header.  Of each     *)
(* upload the steps that count on the tag are modelled: the estimate, the  *)
(* split of the content pipeline and the size callback of the manifest     *)
(* store, one call per persisted node.  Each tag.IncN is one atomic step.  *)

\* the uid of the tag the concurrent uploads send
SharedTag == 1

\* an upload after getOrCreateTag found the tag: its position, the sum of the
\* increments it has made, the manifest nodes persisted so far
NewUploader == [pc |-> "estimate", issued |-> 0, nodes |-> 0]

\* if !created: the estimate of the request is counted on the tag
UploaderEstimate(p, estimatedTotalChunks, incOk) ==
    /\ uploaders[p].pc = "estimate"
    /\ IF estimatedTotalChunks > 0
       THEN IF incOk
            THEN /\ tags' = IncN(tags, SharedTag, estimatedTotalChunks)
                 /\ uploaders' = [uploaders EXCEPT ![p].pc = "pipeline",
                                                   ![p].issued = @ + estimatedTotalChunks]
            ELSE /\ tags' = tags
                 /\ uploaders' = [uploaders EXCEPT ![p].pc = "done"]
       ELSE /\ tags' = tags
            /\ uploaders' = [uploaders EXCEPT ![p].pc = "pipeline"]
    /\ UNCHANGED <<store, pc, dl, ul, w, trace, uploadsLeft, returned>>

\* fr, err := p(ctx, r.Body): the pipeline counts the chunks it splits off
UploaderSplit(p, chunks, err) ==
    /\ uploaders[p].pc = "pipeline"
    /\ tags' = PipelineSplit(tags, SharedTag, chunks)
    /\ uploaders' = [uploaders EXCEPT ![p].pc = IF err = "nil" THEN "store" ELSE "done",
                                      ![p].issued = @ + chunks]
    /\ UNCHANGED <<store, pc, dl, ul, w, trace, uploadsLeft, returned>>

\* m.Store persists one node of the manifest and calls storeSizeFn with its
\* size; an error of the increment fails the store
UploaderStoreNode(p, estimatedTotalChunks, incOk, last) ==
    /\ uploaders[p].pc = "store"
    /\ LET inc == StoreSizeFn(FALSE, estimatedTotalChunks) IN
       IF inc > 0 /\ ~incOk
       THEN /\ tags' = tags
            /\ uploaders' = [uploaders EXCEPT ![p].pc = "done"]
       ELSE /\ tags' = IncN(tags, SharedTag, inc)
            /\ uploaders' = [uploaders EXCEPT
                                ![p].issued = @ + inc,
                                ![p].nodes = @ + 1,
                                ![p].pc = IF last \/ uploaders[p].nodes + 1 >= MaxNodes
                                          THEN "done" ELSE "store"]
    /\ UNCHANGED <<store, pc, dl, ul, w, trace, uploadsLeft, returned>>

ConcurrentUpload(p) ==
    \/ \E n \in 0..MaxChunks, incOk \in BOOLEAN : UploaderEstimate(p, n, incOk)
    \/ \E chunks \in 0..MaxChunks, err \in PipelineErrors : UploaderSplit(p, chunks, err)
    \/ \E n \in 0..MaxChunks, incOk \in BOOLEAN, last \in BOOLEAN :
         UploaderStoreNode(p, n, incOk, last)

-----------------------------------------------------------------------------

InitRequest ==
    /\ pc = "idle"
    /\ dl = NoDownload
    /\ ul = NoUpload
    /\ w = NewResponseWriter
    /\ trace = << >>

\* a gateway whose store holds a feed manifest and a website manifest, and
\* that serves downloads
InitDownload ==
    /\ \E m \in SiteManifests :
         store = [a \in Addrs |-> IF a = FeedAddr THEN Stored(FeedManifest)
                                  ELSE IF a = SiteAddr THEN Stored(m)
                                  ELSE NotStored]
    /\ tags = << >>
    /\ uploadsLeft = 0
    /\ returned = {}
    /\ uploaders = << >>
    /\ InitRequest

\* a gateway whose store is empty, with one tag that has chunks counted on
\* it, that takes uploads and serves what was uploaded
InitUpload ==
    /\ store = [a \in Addrs |-> NotStored]
    /\ tags = << [NewTag EXCEPT !.total = MaxChunks] >>
    /\ uploadsLeft = MaxUploads
    /\ returned = {}
    /\ uploaders = << >>
    /\ InitRequest

Init == InitDownload \/ InitUpload

Next == Download \/ Upload \/ Return

Spec == Init /\ [][Next]_vars

\* the gateway serving downloads from a store of website manifests
NextDownload == Download \/ Return
SpecDownload == InitDownload /\ [][NextDownload]_vars

\* the gateway taking uploads and serving them: no upload stores a feed
\* manifest, so that no download of an upload looks a feed up
NextUpload == DownloadSteps \/ Upload \/ Return
SpecUpload == InitUpload /\ [][NextUpload]_vars

\* a gateway with one tag that has chunks counted on it, and concurrent
\* uploads that all name this tag
InitConcurrent ==
    /\ store = [a \in Addrs |-> NotStored]
    /\ tags = << [NewTag EXCEPT !.total = MaxChunks] >>
    /\ uploadsLeft = 0
    /\ returned = {}
    /\ uploaders = [p \in 1..MaxConcurrent |-> NewUploader]
    /\ InitRequest

NextConcurrent == \E p \in DOMAIN uploaders : ConcurrentUpload(p)

SpecConcurrent == InitConcurrent /\ [][NextConcurrent]_vars

-----------------------------------------------------------------------------
(* Properties *)

\* the request being handled is a download, or an upload
IsDownload == dl.address # ZeroAddress
IsUpload == pc # "idle" /\ dl.address = ZeroAddress

\* the places of the calls of this name in the trace
Calls(name) == { i \in DOMAIN trace : trace[i][1] = name }

\* serveReference has reached path resolution: it has looked up a path
Resolving == Calls("Lookup") # {}

\* the last lookup or prefix query the request made of the manifest
ManifestCalls == Calls("Lookup") \cup Calls("HasPrefix")
LastManifestCall ==
    trace[CHOOSE i \in ManifestCalls : \A j \in ManifestCalls : j <= i]

\* C1: in one download request a feed is dereferenced at most once:
\* feedDereferenced is false until the one feed lookup of the request, no feed
\* detection (manifestFeed) and no feed lookup follows that lookup, and the
\* manifest the feed resolved to is the one that is navigated, also when its
\* root entry names a feed itself.
C1_FeedDereferencedAtMostOnce ==
    IsDownload =>
        /\ Cardinality(Calls("At")) <= 1
        /\ dl.feedDereferenced => Calls("At") # {}
        /\ \A i \in Calls("At"), j \in Calls("manifestFeed") : j < i
        /\ (dl.feedDereferenced /\ Resolving) => dl.m = store[dl.address].entries

\* a feed was dereferenced to a manifest whose root entry names a feed, and
\* an entry of that manifest was served
C1_Witness ==
    /\ IsDownload
    /\ pc = "done"
    /\ dl.feedDereferenced
    /\ manifestFeed(dl.m)
    /\ w.status = StatusOK

\* what the claimed fallback order gives for a path that is not empty: the
\* kind of the outcome, the entry served and the manifest call that decided
FallbackOrder(m, P) ==
    LET root == IF RootPath \in DOMAIN m THEN m[RootPath].meta ELSE EmptyMeta
        hasSuffix == WebsiteIndexDocumentSuffixKey \in DOMAIN root
        suffix == IF hasSuffix THEN root[WebsiteIndexDocumentSuffixKey] ELSE << >>
        joined == IF P \o suffix = << >> THEN << >>
                  ELSE Clean(IF P = << >> THEN suffix ELSE P \o <<Slash>> \o suffix)
        hasDoc == WebsiteErrorDocumentPathKey \in DOMAIN root
        doc == IF hasDoc THEN root[WebsiteErrorDocumentPathKey] ELSE << >>
    IN  IF P \in DOMAIN m
        THEN [tier |-> "direct", entry |-> m[P], call |-> <<"Lookup", P>>]
        ELSE IF P[1] # Slash /\ \E q \in DOMAIN m : HasPrefix(q, P \o <<Slash>>)
        THEN [tier |-> "redirect", entry |-> NoEntry, call |-> <<"HasPrefix", P \o <<Slash>>>>]
        ELSE IF hasSuffix /\ ~HasSuffix(P, suffix) /\ joined \in DOMAIN m
        THEN [tier |-> "index", entry |-> m[joined], call |-> <<"Lookup", joined>>]
        ELSE IF hasDoc /\ doc # P /\ doc \in DOMAIN m
        THEN [tier |-> "error", entry |-> m[doc], call |-> <<"Lookup", doc>>]
        ELSE [tier |-> "none", entry |-> NoEntry, call |-> << >>]

\* C3: for a requested path that is not empty, the outcome of path resolution
\* is the first that applies of: the entry at the path; a redirect when the
\* path does not start with "/" and path + "/" is a prefix; the entry at
\* join(path, suffix) when a suffix is configured, the path does not end with
\* it and the lookup succeeds; the error document when one is configured,
\* differs from the path and its lookup succeeds; not found "path address not
\* found".  No manifest call follows the one that decided the outcome.  (The
\* exact lookup succeeded or failed with not-found: it met no other error.)
C3_FallbackOrder ==
    (/\ IsDownload
     /\ dl.pathVar # << >>
     /\ Resolving
     /\ pc \in {"serve", "done"}
     /\ dl.err \in {"nil", "ErrNotFound"}) =>
        LET want == FallbackOrder(dl.m, dl.pathVar) IN
        /\ dl.tier = want.tier
        /\ dl.me = want.entry
        /\ want.tier # "none" => LastManifestCall = want.call
        /\ want.tier = "none" =>
              /\ pc = "done"
              /\ w.status = StatusNotFound
              /\ w.msg = "path address not found"
        /\ want.tier = "redirect" => pc = "done" /\ w.status = StatusPermanentRedirect

\* the error document was served after the index document's lookup failed
C3_Witness ==
    /\ IsDownload
    /\ pc = "serve"
    /\ dl.tier = "error"
    /\ \E i \in Calls("Lookup") :
         /\ trace[i][2] = PathJoin(dl.pathVar, <<"b">>)
         /\ trace[i][2] \notin DOMAIN dl.m

\* C4: when the requested path is not found, does not start with "/" and
\* path + "/" is a prefix of the manifest, the request ends with a permanent
\* redirect (308) to the request URL with one "/" appended: no entry is
\* served, no content is opened and the prefix query is the last call the
\* request makes, also when the index document or the error document would
\* have resolved.
C4_DirectoryRedirect ==
    (/\ IsDownload
     /\ pc = "done"
     /\ Resolving
     /\ dl.pathVar # << >>
     /\ dl.err = "ErrNotFound"
     /\ dl.pathVar \notin DOMAIN dl.m
     /\ dl.pathVar[1] # Slash
     /\ \E q \in DOMAIN dl.m : HasPrefix(q, dl.pathVar \o <<Slash>>)) =>
        /\ w.status = StatusPermanentRedirect
        /\ w.writes = 1
        /\ "Location" \in DOMAIN w.hdr
        /\ w.hdr["Location"] = dl.url \o <<Slash>>
        /\ w.body = << >>
        /\ dl.me = NoEntry
        /\ Calls("joiner.New") = {}
        /\ trace[Len(trace)] = <<"HasPrefix", dl.pathVar \o <<Slash>>>>
        /\ Cardinality(Calls("NewDefaultManifestReference"))
             = IF dl.feedDereferenced THEN 2 ELSE 1

\* a redirect was sent although the index document would have resolved
C4_Witness ==
    /\ IsDownload
    /\ pc = "done"
    /\ w.status = StatusPermanentRedirect
    /\ manifestMetadataLoad(dl.m, RootPath, WebsiteIndexDocumentSuffixKey).ok
    /\ PathJoin(dl.pathVar, <<"b">>) \in DOMAIN dl.m
    /\ MetaGet(dl.m[RootPath].meta, WebsiteIndexDocumentSuffixKey) = <<"b">>

\* C5: for an empty requested path, the entry at join("", suffix) is the
\* result exactly when the root entry carries an index document suffix and
\* that lookup succeeds; otherwise the request fails with not found "address
\* not found or incorrect".  No prefix query is made and the error document
\* is not used.
C5_EmptyPath ==
    (IsDownload /\ dl.pathVar = << >> /\ Resolving /\ pc \in {"serve", "done"}) =>
        LET root == IF RootPath \in DOMAIN dl.m THEN dl.m[RootPath].meta ELSE EmptyMeta
            hasSuffix == WebsiteIndexDocumentSuffixKey \in DOMAIN root
            suffix == IF hasSuffix THEN root[WebsiteIndexDocumentSuffixKey] ELSE << >>
            joined == IF suffix = << >> THEN << >> ELSE Clean(suffix)
        IN  /\ Calls("HasPrefix") = {}
            /\ dl.tier \in {"index", "none"}
            /\ IF hasSuffix /\ joined \in DOMAIN dl.m
               THEN /\ dl.tier = "index"
                    /\ dl.me = dl.m[joined]
                    /\ LastManifestCall = <<"Lookup", joined>>
               ELSE /\ dl.tier = "none"
                    /\ pc = "done"
                    /\ w.status = StatusNotFound
                    /\ w.msg = "address not found or incorrect"
                    /\ w.body = << >>

\* an empty path failed with not found although an error document is
\* configured and exists
C5_Witness ==
    /\ IsDownload
    /\ pc = "done"
    /\ dl.pathVar = << >>
    /\ w.msg = "address not found or incorrect"
    /\ manifestMetadataLoad(dl.m, RootPath, WebsiteErrorDocumentPathKey).ok
    /\ MetaGet(dl.m[RootPath].meta, WebsiteErrorDocumentPathKey) \in DOMAIN dl.m

\* C6: a download that serves content carries an ETag, of the content
\* reference, if and only if no feed was dereferenced in the request, and the
\* feed index header if and only if one was.
C6_EtagOrFeedIndex ==
    (IsDownload /\ pc = "done" /\ w.status = StatusOK) =>
        /\ "ETag" \in DOMAIN w.hdr <=> ~dl.feedDereferenced
        /\ SwarmFeedIndexHeader \in DOMAIN w.hdr <=> dl.feedDereferenced
        /\ "ETag" \in DOMAIN w.hdr => w.hdr["ETag"] = <<"\"">> \o HexEncode(w.body) \o <<"\"">>
        /\ w.body = dl.me.ref
        /\ dl.tier \in {"direct", "index", "error"}

\* the error document of a feed's target was served: no ETag, the feed index
C6_Witness ==
    /\ IsDownload
    /\ pc = "done"
    /\ w.status = StatusOK
    /\ dl.feedDereferenced
    /\ dl.tier = "error"
    /\ SwarmFeedIndexHeader \in DOMAIN w.hdr

\* C2: the file upload answers 201 Created only after wait() was called and
\* returned without error, which is then the last call of the request; when
\* wait() returns an error the answer is the 500 "sync chunks failed", which
\* no other failure gives, and not a 201.
C2_NoSuccessBeforeWait ==
    IsUpload =>
        /\ w.status = StatusCreated =>
              /\ Calls("wait") # {}
              /\ trace[Len(trace)] = <<"wait", "nil">>
              /\ w.body = ul.ref
        /\ Cardinality(Calls("wait")) <= 1
        /\ \A i \in Calls("wait") :
              trace[i][2] # "nil" =>
                 /\ w.status = StatusInternalServerError
                 /\ w.msg = "sync chunks failed"
        /\ w.msg = "sync chunks failed" =>
              \E i \in Calls("wait") : trace[i][2] # "nil"

\* wait() failed and the upload answered "sync chunks failed"
C2_Witness ==
    /\ IsUpload
    /\ pc = "done"
    /\ ul.ref # ZeroAddress
    /\ \E i \in Calls("wait") : trace[i][2] = "error"
    /\ w.status = StatusInternalServerError

\* the IncN calls of the request that precede the content pipeline
EstimateCalls == { i \in Calls("IncN") : \A j \in Calls("pipeline") : i < j }

\* C7: after a successful upload with a tag sent by the client, the tag's
\* total is its total before the upload plus the estimate of the request
\* (added once, before the content pipeline runs) plus the chunks counted
\* during the split plus the chunks the size callback was given for the
\* persisted manifest nodes.  For a tag created by the request the handler
\* makes no increment: the total is what the split counted.
C7_TagAccounting ==
    (IsUpload /\ pc = "done" /\ w.status = StatusCreated) =>
        IF ul.created
        THEN /\ Calls("IncN") = {}
             /\ tags[ul.uid].total = ul.split
        ELSE /\ tags[ul.uid].total = ul.before + ul.est + ul.split + ul.stored
             /\ Cardinality(EstimateCalls) = IF ul.est > 0 THEN 1 ELSE 0
             /\ \A i \in EstimateCalls : trace[i][2] = ul.est

\* an upload with the client's tag succeeded with an estimate, split chunks
\* and manifest chunks counted on a tag that had chunks before
C7_Witness ==
    /\ IsUpload
    /\ pc = "done"
    /\ w.status = StatusCreated
    /\ ~ul.created
    /\ ul.before > 0
    /\ ul.est > 0
    /\ ul.split > 0
    /\ ul.stored > 0

\* C8: with a tag created by the request, DoneSplit is called once on every
\* execution that gets past manifest persistence, after the manifest store
\* returned, with the manifest reference, and no IncN follows it; with a tag
\* sent by the client, or when the upload fails at or before manifest
\* persistence, DoneSplit is not called.
C8_DoneSplitOnce ==
    IsUpload =>
        /\ Cardinality(Calls("DoneSplit")) <= 1
        /\ \A i \in Calls("DoneSplit") :
              /\ ul.created
              /\ \E j \in Calls("Store") : j < i
              /\ trace[i][2] = ul.ref
              /\ store[ul.ref] = Stored(ul.m)
              /\ \A k \in Calls("IncN") : k < i
        /\ (ul.created /\ ul.ref # ZeroAddress /\ pc # "doneSplit") => Calls("DoneSplit") # {}
        /\ ~ul.created => Calls("DoneSplit") = {}
        /\ ul.ref = ZeroAddress => Calls("DoneSplit") = {}
        /\ \A t \in DOMAIN tags : tags[t].done <= 1

\* an upload that created its tag succeeded and marked the tag done with the
\* manifest reference
C8_Witness ==
    /\ IsUpload
    /\ pc = "done"
    /\ w.status = StatusCreated
    /\ ul.created
    /\ tags[ul.uid].done = 1
    /\ tags[ul.uid].address = ul.ref
    /\ Calls("DoneSplit") # {}

\* the uploaded manifest at an address: the name its root entry gives as the
\* index document, and the reference of the entry of that name
UploadedName(a) == MetaGet(store[a].entries[RootPath].meta, WebsiteIndexDocumentSuffixKey)

\* C9: upload followed by download round-trips through the manifest root: the
\* manifest of a successful upload with name N and content reference R has a
\* root entry whose index document suffix is N and an entry at N that targets
\* R, and a download of the manifest reference with the empty path, or with
\* path N, resolves to the entry whose target is R.
C9_UploadDownloadRoundTrip ==
    /\ (IsUpload /\ pc = "done" /\ w.status = StatusCreated) =>
          /\ ul.ref \in returned
          /\ store[ul.ref].exists
          /\ UploadedName(ul.ref) = ul.name
          /\ ul.name \in DOMAIN store[ul.ref].entries
          /\ store[ul.ref].entries[ul.name].ref = ul.fr
    /\ (/\ IsDownload
        /\ pc \in {"serve", "done"}
        /\ Resolving
        /\ dl.address \in returned
        /\ dl.err \in {"nil", "ErrNotFound"}
        /\ dl.url \in {<< >>, UploadedName(dl.address)}) =>
          /\ dl.tier \in {"direct", "index"}
          /\ dl.me.ref = store[dl.address].entries[UploadedName(dl.address)].ref

\* C10: without a name, the path of the manifest entry, its filename metadata
\* and the root's index document suffix are the hex string of the content
\* reference; a name that is given is used unchanged for the three.  A name
\* that starts with "/" is rejected before any tag, pipeline or manifest
\* operation.
C10_NameDefault ==
    /\ (IsUpload /\ pc \in {"store", "doneSplit", "pin", "wait"}) =>
          LET N == IF ul.given = << >> THEN HexEncode(ul.fr) ELSE ul.given IN
          /\ DOMAIN ul.m = {RootPath, N}
          /\ ul.m[N].ref = ul.fr
          /\ ul.m[N].meta[EntryMetadataFilenameKey] = N
          /\ ul.m[RootPath].meta[WebsiteIndexDocumentSuffixKey] = N
    /\ (IsUpload /\ ul.given # << >> /\ ul.given[1] = Slash) =>
          /\ pc = "done"
          /\ w.status = StatusBadRequest
          /\ trace = << <<"newStamperPutter", "nil">> >>
          /\ ul.m = EmptyManifest
          /\ ul.uid = 0

\* an upload without a name built its manifest under the hex string 0a of the
\* content reference
C10_Witness ==
    /\ IsUpload
    /\ pc = "wait"
    /\ ul.given = << >>
    /\ ul.fr = <<10>>
    /\ <<"0", "a">> \in DOMAIN ul.m
    /\ ul.m[RootPath].meta[WebsiteIndexDocumentSuffixKey] = <<"0", "a">>

\* the feed lookups of the request that failed: l.At returned an error, or no
\* update, or an update that does not decode
FailedFeedLookups ==
    { i \in Calls("At") :
        trace[i][2] \in {"context.Canceled", "error", "no update", "malformed"} }

\* C16: each failure of the feed resolution ends the request, with a response
\* that tells the failures apart: a failed feed lookup gives 404 "feed not
\* found", a lookup without update a 404 that is not "feed not found", an
\* update that does not decode a 500.  feedDereferenced is still false, the
\* address is the one requested, no path was looked up and no content served.
C16_FeedFailuresTerminal ==
    IsDownload =>
        \A i \in FailedFeedLookups :
            /\ pc = "done"
            /\ i = Len(trace)
            /\ w.writes = 1
            /\ ~dl.feedDereferenced
            /\ dl.address = trace[1][2]
            /\ Calls("Lookup") = {}
            /\ Calls("HasPrefix") = {}
            /\ Calls("joiner.New") = {}
            /\ w.body = << >>
            /\ trace[i][2] \in {"context.Canceled", "error"} =>
                  w.status = StatusNotFound /\ w.msg = "feed not found"
            /\ trace[i][2] = "no update" =>
                  w.status = StatusNotFound /\ w.msg # "feed not found"
            /\ trace[i][2] = "malformed" => w.status = StatusInternalServerError

\* the feed had no update and the request ended with its own not-found
C16_Witness ==
    /\ IsDownload
    /\ pc = "done"
    /\ dl.pathVar # << >>
    /\ \E i \in Calls("At") : trace[i][2] = "no update"
    /\ w.status = StatusNotFound
    /\ w.msg = "no update found"

\* C17: when the exact lookup of a requested path that is not empty fails
\* with a manifest error other than not-found, the request ends with the
\* generic not-found, and no directory redirect, index document or error
\* document is tried.
C17_OtherLookupErrorGenericNotFound ==
    (IsDownload /\ dl.err \notin {"nil", "ErrNotFound"}) =>
        /\ pc = "done"
        /\ dl.pathVar # << >>
        /\ w.status = StatusNotFound
        /\ w.msg = "Not Found"
        /\ w.writes = 1
        /\ trace[Len(trace)] = <<"Lookup", dl.pathVar>>
        /\ Cardinality(Calls("Lookup")) = 1
        /\ Calls("HasPrefix") = {}
        /\ Calls("joiner.New") = {}
        /\ dl.tier = "none"
        /\ "Location" \notin DOMAIN w.hdr

\* the lookup failed with another error on a manifest in which the path is a
\* directory and the error document resolves
C17_Witness ==
    /\ IsDownload
    /\ pc = "done"
    /\ dl.err = "error"
    /\ ManifestHasPrefix(dl.m, dl.pathVar \o <<Slash>>)
    /\ manifestMetadataLoad(dl.m, RootPath, WebsiteErrorDocumentPathKey).ok
    /\ MetaGet(dl.m[RootPath].meta, WebsiteErrorDocumentPathKey) \in DOMAIN dl.m

\* the request's context was cancelled while the feed lookup, or the lookup
\* of the requested path, was in progress
Cancelled ==
    \/ \E i \in Calls("At") : trace[i][2] = "context.Canceled"
    \/ dl.err = "context.Canceled"

\* C18: a download whose context is cancelled during a feed lookup or a
\* manifest lookup ends, with an error that is told apart from a not-found
\* result.
C18_CancellationDistinct ==
    (IsDownload /\ Cancelled) =>
        /\ pc = "done"
        /\ w.writes = 1
        /\ w.status # StatusNotFound

\* the error document path the root entry configures, and whether it does
ErrorDocumentOf(m) == manifestMetadataLoad(m, RootPath, WebsiteErrorDocumentPathKey)

Rank(call) ==
    IF call[1] = "newStamperPutter" THEN 1
    ELSE IF call[1] = "getOrCreateTag" THEN 2
    ELSE IF call[1] = "pipeline" THEN 3
    ELSE IF call[1] = "NewDefaultManifest" THEN 4
    ELSE IF call[1] = "Add" /\ call[2] = RootPath THEN 5
    ELSE IF call[1] = "Add" THEN 6
    ELSE IF call[1] = "Store" THEN 7
    ELSE IF call[1] = "DoneSplit" THEN 8
    ELSE IF call[1] = "CreatePin" THEN 9
    ELSE IF call[1] = "wait" THEN 10
    ELSE 0

Steps == { i \in DOMAIN trace : Rank(trace[i]) > 0 }

\* the error a call returned, "nil" when it succeeded
Outcome(call) == call[Len(call)]

\* C12: the calls of an upload occur in the order admission, tag resolution,
\* content store, manifest adds, manifest store, DoneSplit (created tag only),
\* pin creation (if requested), wait(), response; each at most once; a call
\* that fails is the last and the request ends with an error response;
\* wait() is called only when every earlier step succeeded.
C12_CallOrder ==
    IsUpload =>
        /\ \A i, j \in Steps : i < j => Rank(trace[i]) < Rank(trace[j])
        /\ \A i \in Steps :
              Outcome(trace[i]) # "nil" =>
                 /\ i = Len(trace)
                 /\ pc = "done"
                 /\ w.writes = 1
                 /\ w.status >= StatusBadRequest
        /\ Calls("DoneSplit") # {} => ul.created
        /\ \A i \in Calls("wait") :
              /\ { Rank(trace[j]) : j \in { k \in Steps : k < i } } \ {9}
                    = IF ul.created THEN 1..8 ELSE 1..7
              /\ \A j \in Steps : j < i => Outcome(trace[j]) = "nil"
        /\ w.writes > 0 => pc = "done"
        /\ w.status = StatusCreated => Calls("wait") # {}

\* an upload that created its tag and asked for a pin made the ten calls and
\* answered 201
C12_Witness ==
    /\ IsUpload
    /\ pc = "done"
    /\ w.status = StatusCreated
    /\ { Rank(trace[i]) : i \in Steps } = 1..10
    /\ Len(trace) = 10

\* the admission of the upload failed: newStamperPutter returned an error
AdmissionFailed == IsUpload /\ trace # << >> /\ Outcome(trace[1]) # "nil"
BatchUnusable == AdmissionFailed /\ trace[1][2] \in {"errBatchUnusable", "postage.ErrNotUsable"}
BatchNotFound == AdmissionFailed /\ trace[1][2] = "postage.ErrNotFound"
BatchInvalid == AdmissionFailed /\ trace[1][2] = "errInvalidPostageBatch"

\* after an admission failure no tag, pipeline or manifest operation is made
NothingAfterAdmission ==
    AdmissionFailed =>
        /\ pc = "done"
        /\ Len(trace) = 1
        /\ w.writes = 1
        /\ ul = NoUpload

\* C13, as claimed: an unusable batch is answered 402, a batch that is not
\* found 404, an invalid batch 400, and no tag, pipeline or manifest operation
\* follows an admission failure.
C13_AdmissionStatusPaymentRequired ==
    /\ BatchUnusable => w.status = StatusPaymentRequired
    /\ BatchNotFound => w.status = StatusNotFound
    /\ BatchInvalid => w.status = StatusBadRequest
    /\ NothingAfterAdmission

\* C13, amended: an unusable batch is answered 422, a batch that is not found
\* 404, an invalid batch 400, and no tag, pipeline or manifest operation
\* follows an admission failure.
C13_AdmissionStatus ==
    /\ BatchUnusable => w.status = StatusUnprocessableEntity
    /\ BatchNotFound => w.status = StatusNotFound
    /\ BatchInvalid => w.status = StatusBadRequest
    /\ NothingAfterAdmission

\* an unusable batch was answered 422
C13_Witness ==
    /\ BatchUnusable
    /\ trace[1][2] = "postage.ErrNotUsable"
    /\ w.status = StatusUnprocessableEntity

\* the content store and the manifest store of the upload
StoreSteps == Calls("pipeline") \cup Calls("Store")

\* the total the handler and the split have counted on the tag so far
CountedOnTag ==
    IF ul.created THEN ul.split ELSE ul.before + ul.est + ul.split + ul.stored

\* C14: a bucket-full error of the content pipeline or of the manifest store
\* ends the upload with 402, where any other error of the same step gives
\* 500; no DoneSplit, pin, wait() or 201 follows, and what was counted on the
\* tag stays counted.
C14_QuotaExceeded ==
    IsUpload =>
        \A i \in StoreSteps :
            /\ Outcome(trace[i]) = "postage.ErrBucketFull" =>
                  /\ pc = "done"
                  /\ i = Len(trace)
                  /\ w.status = StatusPaymentRequired
                  /\ w.writes = 1
                  /\ Calls("DoneSplit") = {}
                  /\ Calls("CreatePin") = {}
                  /\ Calls("wait") = {}
                  /\ ul.ref = ZeroAddress
                  /\ tags[ul.uid].total = CountedOnTag
                  /\ ul.created => tags[ul.uid].done = 0
            /\ Outcome(trace[i]) \notin {"nil", "postage.ErrBucketFull"} =>
                  /\ pc = "done"
                  /\ w.status = StatusInternalServerError

\* the content pipeline split chunks off and then met a full bucket
C14_Witness ==
    /\ IsUpload
    /\ pc = "done"
    /\ \E i \in Calls("pipeline") : Outcome(trace[i]) = "postage.ErrBucketFull"
    /\ ul.split > 0
    /\ tags[ul.uid].total > ul.before
    /\ w.status = StatusPaymentRequired

\* C15: when getOrCreateTag fails the upload ends before the content pipeline
\* and before any manifest is created, with 404 for a tag that is not found
\* and 500 for any other error; when the estimate's increment of a client's
\* tag fails the upload ends with 500, again before pipeline and manifest.
C15_TagFailures ==
    IsUpload =>
        /\ \A i \in Calls("getOrCreateTag") :
              Outcome(trace[i]) # "nil" =>
                 /\ pc = "done"
                 /\ i = Len(trace)
                 /\ w.writes = 1
                 /\ w.status = IF Outcome(trace[i]) = "tags.ErrNotFound"
                                THEN StatusNotFound ELSE StatusInternalServerError
                 /\ Calls("pipeline") = {}
                 /\ Calls("NewDefaultManifest") = {}
                 /\ ul.m = EmptyManifest
        /\ \A i \in Calls("IncN") :
              Outcome(trace[i]) # "nil" =>
                 /\ pc = "done"
                 /\ i = Len(trace)
                 /\ ~ul.created
                 /\ w.writes = 1
                 /\ w.status = StatusInternalServerError
                 /\ w.msg = "increment tag failed"
                 /\ Calls("pipeline") = {}
                 /\ Calls("NewDefaultManifest") = {}
                 /\ ul.m = EmptyManifest

\* the tag of the header was not found and the upload answered 404
C15_Witness ==
    /\ IsUpload
    /\ pc = "done"
    /\ \E i \in Calls("getOrCreateTag") : Outcome(trace[i]) = "tags.ErrNotFound"
    /\ w.status = StatusNotFound
    /\ w.msg = "tag not found"

\* the positions of the handlers, in the order in which a request passes them
PcOrder ==
    << "FETCH", "manifestFeed", "feedAt", "path", "redirect", "index", "errdoc", "serve",
       "queries", "tag", "estimate", "pipeline", "manifest", "addRoot", "addFile", "store",
       "doneSplit", "pin", "wait", "done" >>

\* how far the request has come: its position, after the one jump back to
\* FETCH that dereferencing a feed makes
Progress(position, feedDereferenced) ==
    (CHOOSE i \in DOMAIN PcOrder : PcOrder[i] = position)
      + (IF feedDereferenced THEN Len(PcOrder) ELSE 0)

\* a request has written one terminal response exactly when its handler is
\* done: served content, a redirect, created, or one error
OneTerminalResponse ==
    /\ w.writes = IF pc = "done" THEN 1 ELSE 0
    /\ pc = "done" =>
          \/ w.status = StatusOK /\ IsDownload /\ w.body = dl.me.ref
          \/ w.status = StatusPermanentRedirect /\ IsDownload /\ "Location" \in DOMAIN w.hdr
          \/ w.status = StatusCreated /\ IsUpload /\ w.body = ul.ref
          \/ w.status >= StatusBadRequest /\ w.body = << >>

\* C20: a request of serveReference makes at most two manifest fetches and
\* at most one feed lookup, every step of a handler brings the request
\* forward in the bounded order of its positions, so the handler returns, and
\* when it does exactly one terminal response has been written, none before.
C20_TerminatesWithOneResponse ==
    /\ [](/\ Cardinality(Calls("NewDefaultManifestReference")) <= 2
          /\ Cardinality(Calls("At")) <= 1
          /\ OneTerminalResponse)
    /\ [][(pc # "idle" /\ pc' # "idle") =>
            Progress(pc', dl'.feedDereferenced) > Progress(pc, dl.feedDereferenced)]_vars

\* a download fetched two manifests, looked a feed up once and served content
C20_Witness ==
    /\ IsDownload
    /\ pc = "done"
    /\ Cardinality(Calls("NewDefaultManifestReference")) = 2
    /\ Cardinality(Calls("At")) = 1
    /\ w.writes = 1
    /\ w.status = StatusOK

\* the sum of the increments the first n concurrent uploads have made
RECURSIVE SumIssued(_)
SumIssued(n) == IF n = 0 THEN 0 ELSE uploaders[n].issued + SumIssued(n - 1)

\* C11: with uploads that run concurrently on one tag, under every
\* interleaving of their estimate, split and size callback increments, no
\* increment is lost: at every moment the total a read observes is the
\* initial total plus the sum of the increments completed so far, and when
\* all uploads have finished it is the initial total plus the sum of every
\* increment of every upload.
C11_NoLostIncrement ==
    /\ tags[SharedTag].total = MaxChunks + SumIssued(Len(uploaders))
    /\ (\A p \in DOMAIN uploaders : uploaders[p].pc = "done") =>
          tags[SharedTag].total = MaxChunks + SumIssued(Len(uploaders))

\* two uploads are both in the middle of manifest persistence, each after an
\* estimate increment, a split increment and a callback increment
C11_Witness ==
    /\ Len(uploaders) >= 2
    /\ \A p \in {1, 2} :
          /\ uploaders[p].pc = "store"
          /\ uploaders[p].nodes = 1
          /\ uploaders[p].issued = 3
    /\ tags[SharedTag].total = MaxChunks + SumIssued(Len(uploaders))
    /\ SumIssued(Len(uploaders)) >= 6

-----------------------------------------------------------------------------
(* Increments on a tag sent by the client *)

\* the sum of the increments the first i calls of the request made with IncN
RECURSIVE SumIncN(_)
SumIncN(i) ==
    IF i = 0 THEN 0
    ELSE SumIncN(i - 1)
         + (IF trace[i][1] = "IncN" /\ Outcome(trace[i]) = "nil" THEN trace[i][2] ELSE 0)

\* an upload that named a tag in its header and got it
WithClientTag == IsUpload /\ ul.uid # 0 /\ ~ul.created

\* C21: the upload handler never undoes an increment on a tag sent by the
\* client.  In every state of such an upload, the failed ones included
\* (content store failure, quota exceeded, manifest store failure, pin
\* failure, wait() failure), the tag's total is its total before the upload
\* plus every increment the handler made plus what the split counted; so it
\* is never below the total before the upload and is not restored to it.
C21_IncrementsKept ==
    WithClientTag =>
        /\ tags[ul.uid].total = ul.before + SumIncN(Len(trace)) + ul.split
        /\ tags[ul.uid].total >= ul.before

\* an upload with the client's tag failed in wait(), after the estimate was
\* counted on the tag, and the tag's total stays above what it was
C21_Witness ==
    /\ WithClientTag
    /\ pc = "done"
    /\ w.status = StatusInternalServerError
    /\ trace[Len(trace)] = <<"wait", "error">>
    /\ ul.est > 0
    /\ tags[ul.uid].total > ul.before

-----------------------------------------------------------------------------
(* The feed index header *)

\* the feed lookups of the request that gave this outcome
FeedLookups(outcome) == { i \in Calls("At") : trace[i][2] = outcome }

HasFeedIndexHeader == SwarmFeedIndexHeader \in DOMAIN w.hdr

\* C22 as stated: in every state of a download the feed index header is
\* present exactly when feedDereferenced is true.
C22_HeaderWheneverDereferenced ==
    IsDownload => (HasFeedIndexHeader <=> dl.feedDereferenced)

\* C22, amended: the feed index header is set once the index of the update
\* was marshalled, in the step that sends the request back to FETCH, so
\* before the target manifest is fetched or navigated, and it is never removed
\* afterwards; it is on every response produced after that, the not-found,
\* redirect and internal-error ones included.  It is absent in every state of
\* a request in which feedDereferenced stayed false, and also on the 500
\* "marshal index" response, which is produced with feedDereferenced already
\* true.
C22_FeedIndexHeader ==
    IsDownload =>
        /\ HasFeedIndexHeader <=> FeedLookups("update") # {}
        /\ dl.feedDereferenced <=> FeedLookups("update") \cup FeedLookups("marshal error") # {}
        /\ FeedLookups("update") # {} =>
              \A i \in Calls("NewDefaultManifestReference") \cup ManifestCalls :
                  i > 1 => \E j \in FeedLookups("update") : j < i
        /\ FeedLookups("marshal error") # {} =>
              /\ pc = "done"
              /\ w.status = StatusInternalServerError
              /\ w.msg = "marshal index"
              /\ ~HasFeedIndexHeader

\* the target of a feed holds a directory: the request is redirected, and the
\* redirect carries the feed index header
C22_Witness ==
    /\ IsDownload
    /\ pc = "done"
    /\ dl.feedDereferenced
    /\ w.status = StatusPermanentRedirect
    /\ HasFeedIndexHeader

-----------------------------------------------------------------------------
(* Feed detection that fails *)

\* the calls of manifestFeed in the request that returned an error
FailedFeedDetections == { i \in Calls("manifestFeed") : Outcome(trace[i]) # "nil" }

\* C23: feed detection never fails a request by itself.  When manifestFeed
\* returns an error (no root entry, owner or topic absent or empty, owner,
\* topic or type not decodable, the lookup factory failed) no response is
\* written by that step and the request goes on to path resolution;
\* feedDereferenced stays false, no feed lookup is issued, the manifest is
\* fetched once, and the manifest navigated is the one at the address the
\* request named.
C23_FeedDetectionNeverFails ==
    (IsDownload /\ FailedFeedDetections # {}) =>
        /\ \A i \in FailedFeedDetections :
              /\ trace[i][2] = IF manifestFeed(dl.m) THEN "NewLookup"
                               ELSE manifestFeedError(dl.m)
              /\ i = Len(trace) => (pc = "path" /\ w.writes = 0)
        /\ ~dl.feedDereferenced
        /\ Calls("At") = {}
        /\ Cardinality(Calls("NewDefaultManifestReference")) = 1
        /\ dl.address = trace[1][2]
        /\ dl.m = store[dl.address].entries
        /\ ~HasFeedIndexHeader
        /\ pc \in {"path", "redirect", "index", "errdoc", "serve", "done"}

\* the root entry names a feed but the lookup factory failed: an entry of the
\* manifest the request named was served, with its ETag
C23_Witness ==
    /\ IsDownload
    /\ pc = "done"
    /\ \E i \in FailedFeedDetections : trace[i][2] = "NewLookup"
    /\ w.status = StatusOK
    /\ "ETag" \in DOMAIN w.hdr

====
